---- MODULE Spec2Model ----
(***************************************************************************)
(* A model of csv_export_mcp/server.py: the csv_export tool handler        *)
(* (handle_call_tool), the encoder (convert_to_csv over csv.DictWriter),   *)
(* the size label (get_file_size_string) and the storage helpers           *)
(* (ensure_export_directory, write_csv_to_file).                           *)
(*                                                                         *)
(* Text (file names, field values, csv output) is a sequence of            *)
(* one-character strings.  Python values are tagged records                *)
(* ([kind |-> "str", s |-> ...], [kind |-> "none"], ...), a dict is the    *)
(* sequence of its <<key, value>> pairs in insertion order.                *)
(***************************************************************************)
EXTENDS Integers, Sequences, FiniteSets, TLC

VARIABLES
    dirExists,      \* Path(EXPORT_DIR).exists()
    files,          \* the files of EXPORT_DIR: name -> content
    uuidsIssued,    \* how many values uuid.uuid4() has returned
    started,        \* how many csv_export calls were received
    pc,             \* per call: where the handler stands
    args,           \* per call: the arguments object of the request
    csv_content,    \* per call: local csv_content
    full_filename,  \* per call: local full_filename
    file_size,      \* per call: local file_size
    result,         \* per call: the object returned to the caller
    fsBefore,       \* history, per call: the directory when the call arrived
    named,          \* history: every full_filename composed, in order
    returned,       \* history: path and content of every success result
    input,          \* input of a pure function under check
    output          \* its result

vars == <<dirExists, files, uuidsIssued, started, pc, args, csv_content,
          full_filename, file_size, result, fsBefore, named, returned,
          input, output>>

callVars == <<dirExists, files, uuidsIssued, started, pc, args, csv_content,
              full_filename, file_size, result, fsBefore, named, returned>>

-----------------------------------------------------------------------------
(* Bounds *)

MaxCalls == 2        \* calls received in one behaviour
NumClients == 2      \* calls that may be in flight together
MaxCells == 4        \* rows * columns of an encoder input
MaxChars == 2        \* characters of an encoder input, all cells together
SizeWindow == 600    \* byte lengths tried on each side of a size boundary

-----------------------------------------------------------------------------
(* Characters *)

QUOTECHAR == "\""
CR == "\r"
LF == "\n"

\* str.isalnum() is Unicode aware: letters and digits of any script.
AsciiAlnum == {"a", "b", "o", "u", "t", "p", "r", "x", "Z", "9"}
IsAlnum(c) == c \in AsciiAlnum \cup {"é", "²"}

\* bytes of the UTF-8 encoding of one character
Utf8Width(c) == IF c \in {"é", "²"} THEN 2 ELSE 1

RECURSIVE Utf8Len(_)
Utf8Len(text) ==
    IF text = <<>> THEN 0 ELSE Utf8Width(Head(text)) + Utf8Len(Tail(text))

-----------------------------------------------------------------------------
(* Python values *)

PyNone == [kind |-> "none"]
PyStr(s) == [kind |-> "str", s |-> s]
PyInt(n) == [kind |-> "int", n |-> n]
PyDict(pairs) == [kind |-> "dict", pairs |-> pairs]
PyList(items) == [kind |-> "list", items |-> items]
Absent == [kind |-> "absent"]

Exception(cls, msg) == [cls |-> cls, msg |-> msg]
Raise(exc) == [ok |-> FALSE, exc |-> exc]
Returns(v) == [ok |-> TRUE, value |-> v]

\* arguments.get(key, default)
ArgGet(a, key, default) == IF a[key].kind = "absent" THEN default ELSE a[key]

\* bool(v)
Truthy(v) ==
    CASE v.kind = "none" -> FALSE
      [] v.kind = "list" -> Len(v.items) > 0
      [] v.kind = "str" -> Len(v.s) > 0
      [] v.kind = "dict" -> Len(v.pairs) > 0
      [] v.kind = "int" -> v.n # 0
      [] v.kind = "bool" -> v.b
      [] OTHER -> TRUE

Digit(d) == <<"0", "1", "2", "3", "4", "5", "6", "7", "8", "9">>[d + 1]

RECURSIVE NatToText(_)
NatToText(n) ==
    IF n < 10 THEN <<Digit(n)>> ELSE NatToText(n \div 10) \o <<Digit(n % 10)>>

\* The text csv.writer writes for a field value: None is the empty string,
\* a str is itself, anything else is str(value).
FieldText(v) ==
    CASE v.kind = "none" -> <<>>
      [] v.kind = "str" -> v.s
      [] v.kind = "int" -> NatToText(v.n)

DictKeys(d) == [i \in 1..Len(d.pairs) |-> d.pairs[i][1]]
HasKey(d, k) == \E i \in 1..Len(d.pairs) : d.pairs[i][1] = k
\* d.get(k, restval)
DictGet(d, k, restval) ==
    IF HasKey(d, k)
    THEN d.pairs[CHOOSE i \in 1..Len(d.pairs) : d.pairs[i][1] = k][2]
    ELSE restval


PyBool(b) == [kind |-> "bool", b |-> b]

-----------------------------------------------------------------------------
(* The encoder: csv.DictWriter(output, fieldnames, delimiter) with the     *)
(* excel dialect: quotechar '"', doublequote, QUOTE_MINIMAL,               *)
(* lineterminator "\r\n", restval "", extrasaction "raise".                *)

LineTerminator == <<CR, LF>>

\* csv.writer's check of the delimiter (DictWriter.__init__ builds the writer)
DelimiterCheck(delimiter) ==
    IF delimiter.kind # "str"
    THEN Raise(Exception("TypeError", "\"delimiter\" must be string, not NoneType"))
    ELSE IF Len(delimiter.s) # 1
    THEN Raise(Exception("TypeError", "\"delimiter\" must be a 1-character string"))
    ELSE Returns(delimiter.s[1])

\* mutant: the quoting test looks for the comma, whatever the delimiter is
NeedsQuoteComma(field, delim) ==
    \E i \in 1..Len(field) : field[i] \in {",", QUOTECHAR, CR, LF}

\* QUOTE_MINIMAL: a field is quoted when one of its characters is the
\* delimiter, the quotechar or a character of the lineterminator.
NeedsQuote(field, delim) ==
    \E i \in 1..Len(field) : field[i] \in {delim, QUOTECHAR, CR, LF}

\* doublequote: every quotechar of the field is written twice
RECURSIVE DoubleQuotes(_)
DoubleQuotes(field) ==
    IF field = <<>> THEN <<>>
    ELSE (IF Head(field) = QUOTECHAR THEN <<QUOTECHAR, QUOTECHAR>>
          ELSE <<Head(field)>>) \o DoubleQuotes(Tail(field))

\* one field as the writer appends it to the record
JoinAppend(field, delim, quoted) ==
    IF quoted \/ NeedsQuote(field, delim)
    THEN <<QUOTECHAR>> \o DoubleQuotes(field) \o <<QUOTECHAR>>
    ELSE field

RECURSIVE JoinFields(_, _)
JoinFields(fields, delim) ==
    IF fields = <<>> THEN <<>>
    ELSE IF Len(fields) = 1 THEN JoinAppend(FieldText(fields[1]), delim, FALSE)
    ELSE JoinAppend(FieldText(fields[1]), delim, FALSE) \o <<delim>>
         \o JoinFields(Tail(fields), delim)

\* csv.writer.writerow: the fields joined by the delimiter; a record that
\* came out empty although it has a field (one field, empty) is written
\* as a quoted empty field; then the line terminator.
WriterRow(fields, delim) ==
    LET rec == JoinFields(fields, delim)
    IN  (IF Len(fields) > 0 /\ rec = <<>> THEN JoinAppend(<<>>, delim, TRUE)
         ELSE rec) \o LineTerminator

\* DictWriter._dict_to_list: extrasaction "raise" rejects a key that is
\* not a fieldname; a missing key gives restval "".
DictToList(rowdict, fieldnames) ==
    IF rowdict.kind # "dict"
    THEN Raise(Exception("AttributeError", "'int' object has no attribute 'keys'"))
    ELSE IF \E i \in 1..Len(rowdict.pairs) :
              \A j \in 1..Len(fieldnames) : rowdict.pairs[i][1] # fieldnames[j]
    THEN Raise(Exception("ValueError", "dict contains fields not in fieldnames"))
    ELSE Returns([j \in 1..Len(fieldnames) |->
                    DictGet(rowdict, fieldnames[j], PyStr(<<>>))])

\* for row in data: writer.writerow(row), up to the first row that raises
RECURSIVE WriteRows(_, _, _)
WriteRows(rows, fieldnames, delim) ==
    IF rows = <<>> THEN Returns(<<>>)
    ELSE LET fields == DictToList(Head(rows), fieldnames)
         IN  IF ~fields.ok THEN fields
             ELSE LET rest == WriteRows(Tail(rows), fieldnames, delim)
                  IN  IF ~rest.ok THEN rest
                      ELSE Returns(WriterRow(fields.value, delim) \o rest.value)

\* DictWriter.writeheader: the row dict(zip(fieldnames, fieldnames))
WriteHeader(fieldnames, delim) ==
    WriterRow([j \in 1..Len(fieldnames) |-> PyStr(fieldnames[j])], delim)

convert_to_csv(data, delimiter, include_headers) ==
    IF ~Truthy(data) THEN Returns(<<>>)
    ELSE IF data.items[1].kind # "dict"
    THEN Raise(Exception("AttributeError", "'int' object has no attribute 'keys'"))
    ELSE LET headers == DictKeys(data.items[1])
             d == DelimiterCheck(delimiter)
         IN  IF ~d.ok THEN d
             ELSE LET rows == WriteRows(data.items, headers, d.value)
                      head == IF Truthy(include_headers)
                              THEN WriteHeader(headers, d.value) ELSE <<>>
                  IN  IF ~rows.ok THEN rows ELSE Returns(head \o rows.value)

-----------------------------------------------------------------------------
(* The size label *)

\* mutant: the quotient is truncated
RoundDown(num, den) == num \div den

\* Python's format: the nearest value, a tie going to the even one.  n/1024
\* and n/1024/1024 are exact in binary floating point, so the rounding is
\* that of the exact quotient num/den.
RoundHalfEven(num, den) ==
    LET q == num \div den
        r == num % den
    IN  IF 2 * r > den \/ (2 * r = den /\ q % 2 = 1) THEN q + 1 ELSE q

\* f"{x:.2f}" of hundredths h
TwoDecimals(h) ==
    ToString(h \div 100) \o "." \o ToString((h % 100) \div 10) \o ToString(h % 10)

\* lines 51-56 on bytes_size
SizeLabel(bytes_size) ==
    IF bytes_size < 1024 * 1024
    THEN IF bytes_size >= 1024
         THEN ToString(RoundHalfEven(bytes_size, 1024)) \o " KB"
         ELSE "1 KB"
    ELSE TwoDecimals(RoundHalfEven(bytes_size * 100, 1024 * 1024)) \o " MB"

get_file_size_string(content) == SizeLabel(Utf8Len(content))

-----------------------------------------------------------------------------
(* Naming *)

\* "".join(c if c.isalnum() or c in "_-" else "_" for c in filename)
SanitizeChar(c) == IF IsAlnum(c) \/ c \in {"_", "-"} THEN c ELSE "_"

sanitized_filename(filename) ==
    IF filename.kind # "str"
    THEN Raise(Exception("TypeError", "'NoneType' object is not iterable"))
    ELSE Returns([i \in 1..Len(filename.s) |-> SanitizeChar(filename.s[i])])

\* str(uuid.uuid4()): 122 random bits; modelled by what uuid4 is relied on
\* for, a text no earlier call got.  One symbol stands for the 36 characters.
UuidText(k) == <<"#" \o ToString(k)>>

\* mutant: the name is composed without the uuid
FullFilenameNoUuid(sanitized, uuidText) ==
    sanitized \o <<".", "c", "s", "v">>

FullFilename(sanitized, uuidText) ==
    sanitized \o <<"_">> \o uuidText \o <<".", "c", "s", "v">>


-----------------------------------------------------------------------------
(* handle_call_tool, name = "csv_export" *)

OUTPUT == <<"o", "u", "t", "p", "u", "t">>

\* lines 150-154
Validate(data) ==
    IF ~Truthy(data) \/ data.kind # "list"
    THEN Raise(Exception("ValueError", "Data must be provided as an array of objects"))
    ELSE IF Len(data.items) = 0
    THEN Raise(Exception("ValueError", "Data array cannot be empty"))
    ELSE Returns(data)

\* lines 143-165, with k the number of the uuid drawn at line 160: the
\* locals the handler holds when it reaches the write, or what it raised
HandlerLocals(a, k) ==
    LET data == ArgGet(a, "data", PyNone)
        filename == ArgGet(a, "filename", PyStr(OUTPUT))
        delimiter == ArgGet(a, "delimiter", PyStr(<<",">>))
        include_headers == ArgGet(a, "includeHeaders", PyBool(TRUE))
        valid == Validate(data)
    IN  IF ~valid.ok THEN valid
        ELSE LET csv == convert_to_csv(data, delimiter, include_headers)
             IN  IF ~csv.ok THEN csv
                 ELSE LET sanitized == sanitized_filename(filename)
                      IN  IF ~sanitized.ok THEN sanitized
                          ELSE Returns([csv_content |-> csv.value,
                                        full_filename |->
                                            FullFilename(sanitized.value, UuidText(k)),
                                        file_size |-> get_file_size_string(csv.value)])

\* line 160 is reached when validation and the encoder raised nothing
UuidDrawn(a) ==
    LET data == ArgGet(a, "data", PyNone)
    IN  /\ Validate(data).ok
        /\ convert_to_csv(data, ArgGet(a, "delimiter", PyStr(<<",">>)),
                          ArgGet(a, "includeHeaders", PyBool(TRUE))).ok

\* mutant: except ValueError
CaughtValueError(exc) == exc.cls = "ValueError"

\* except Exception: every class raised here derives from Exception
Caught(exc) ==
    exc.cls \in {"ValueError", "TypeError", "AttributeError", "OSError"}

\* lines 187-190
error_result(exc) == [success |-> FALSE, error |-> exc.msg]

\* mutant: path is str(filepath), the absolute path write_csv_to_file returns
success_result_filepath(name, size) ==
    [path |-> <<"/", "t", "m", "p", "/">> \o name, filetype |-> "text/csv",
     filename |-> name, filesize |-> size]

\* lines 175-180
success_result(name, size) ==
    [path |-> name, filetype |-> "text/csv", filename |-> name, filesize |-> size]

NoResult == [pending |-> TRUE]

\* an exception raised inside the try block, at call c
Fail(c, exc) ==
    /\ pc' = [pc EXCEPT ![c] = IF Caught(exc) THEN "done" ELSE "raised"]
    /\ result' = [result EXCEPT ![c] = IF Caught(exc) THEN error_result(exc)
                                       ELSE NoResult]

\* what writing content under name leaves in the export directory
Written(fs, name, content) ==
    [n \in DOMAIN fs \cup {name} |-> IF n = name THEN content ELSE fs[n]]

\* the protocol layer hands a csv_export request to the handler
CallTool(c, req) ==
    /\ pc[c] \in {"idle", "done"}
    /\ started < MaxCalls
    /\ started' = started + 1
    /\ pc' = [pc EXCEPT ![c] = "handle"]
    /\ args' = [args EXCEPT ![c] = req]
    /\ csv_content' = [csv_content EXCEPT ![c] = <<>>]
    /\ full_filename' = [full_filename EXCEPT ![c] = <<>>]
    /\ file_size' = [file_size EXCEPT ![c] = ""]
    /\ result' = [result EXCEPT ![c] = NoResult]
    /\ fsBefore' = [fsBefore EXCEPT ![c] = [dir |-> dirExists, files |-> files]]
    /\ UNCHANGED <<dirExists, files, uuidsIssued, named, returned, input, output>>

\* mutant: the export directory is made before the input is validated
HandleEnsuresFirst(c) ==
    /\ pc[c] = "handle"
    /\ LET out == HandlerLocals(args[c], uuidsIssued + 1)
       IN  IF out.ok
           THEN /\ csv_content' = [csv_content EXCEPT ![c] = out.value.csv_content]
                /\ full_filename' = [full_filename EXCEPT ![c] = out.value.full_filename]
                /\ file_size' = [file_size EXCEPT ![c] = out.value.file_size]
                /\ named' = Append(named, out.value.full_filename)
                /\ pc' = [pc EXCEPT ![c] = "ensure"]
                /\ UNCHANGED result
           ELSE /\ Fail(c, out.exc)
                /\ UNCHANGED <<csv_content, full_filename, file_size, named>>
    /\ uuidsIssued' = IF UuidDrawn(args[c]) THEN uuidsIssued + 1 ELSE uuidsIssued
    /\ dirExists' = TRUE
    /\ UNCHANGED <<files, started, args, fsBefore, returned, input, output>>

\* lines 143-165: arguments, validation, encoding, naming, size
Handle(c) ==
    /\ pc[c] = "handle"
    /\ LET out == HandlerLocals(args[c], uuidsIssued + 1)
       IN  IF out.ok
           THEN /\ csv_content' = [csv_content EXCEPT ![c] = out.value.csv_content]
                /\ full_filename' = [full_filename EXCEPT ![c] = out.value.full_filename]
                /\ file_size' = [file_size EXCEPT ![c] = out.value.file_size]
                /\ named' = Append(named, out.value.full_filename)
                /\ pc' = [pc EXCEPT ![c] = "ensure"]
                /\ UNCHANGED result
           ELSE /\ Fail(c, out.exc)
                /\ UNCHANGED <<csv_content, full_filename, file_size, named>>
    /\ uuidsIssued' = IF UuidDrawn(args[c]) THEN uuidsIssued + 1 ELSE uuidsIssued
    /\ UNCHANGED <<dirExists, files, started, args, fsBefore, returned, input, output>>

\* ensure_export_directory: the directory exists, or mkdir creates it
EnsureDirectory(c) ==
    /\ pc[c] = "ensure"
    /\ dirExists' = TRUE
    /\ pc' = [pc EXCEPT ![c] = "write"]
    /\ UNCHANGED <<files, uuidsIssued, started, args, csv_content, full_filename,
                   file_size, result, fsBefore, named, returned, input, output>>

\* ensure_export_directory: mkdir raises (lines 69-71), the handler catches
MkdirFails(c) ==
    /\ pc[c] = "ensure"
    /\ ~dirExists
    /\ Fail(c, Exception("OSError", "[Errno 13] Permission denied"))
    /\ UNCHANGED <<dirExists, files, uuidsIssued, started, args, csv_content,
                   full_filename, file_size, fsBefore, named, returned, input, output>>

\* write_csv_to_file, lines 78-83: write_text replaces the file's content
WriteFile(c) ==
    /\ pc[c] = "write"
    /\ files' = Written(files, full_filename[c], csv_content[c])
    /\ pc' = [pc EXCEPT ![c] = "respond"]
    /\ UNCHANGED <<dirExists, uuidsIssued, started, args, csv_content,
                   full_filename, file_size, result, fsBefore, named, returned,
                   input, output>>

\* What a failed write_text can leave in the file it opened: a proper
\* prefix of the content.  The shortest and the longest stand for them all.
PartialWrites(content) ==
    {<<>>} \cup {SubSeq(content, 1, Len(content) - 1) : k \in {1} \cap 1..Len(content)}

\* write_text raises (lines 84-86): the file was not opened, or it was
\* opened (created, truncated) and holds a proper prefix of the content
WriteFails(c) ==
    /\ pc[c] = "write"
    /\ \/ UNCHANGED files
       \/ \E partial \in PartialWrites(csv_content[c]) :
            files' = Written(files, full_filename[c], partial)
    /\ Fail(c, Exception("OSError", "[Errno 28] No space left on device"))
    /\ UNCHANGED <<dirExists, uuidsIssued, started, args, csv_content,
                   full_filename, file_size, fsBefore, named, returned, input, output>>

\* lines 170-182: the success object
Respond(c) ==
    /\ pc[c] = "respond"
    /\ result' = [result EXCEPT ![c] = success_result(full_filename[c], file_size[c])]
    /\ pc' = [pc EXCEPT ![c] = "done"]
    /\ returned' = returned \cup {[path |-> full_filename[c], content |-> csv_content[c]]}
    /\ UNCHANGED <<dirExists, files, uuidsIssued, started, args, csv_content,
                   full_filename, file_size, fsBefore, named, input, output>>

-----------------------------------------------------------------------------
(* Requests *)

KeyA == <<"a">>
KeyB == <<"b">>
RowAB == PyDict(<< <<KeyA, PyStr(<<"x", ";">>)>>, <<KeyB, PyInt(30)>> >>)
RowA == PyDict(<< <<KeyA, PyStr(<<"é">>)>> >>)
RowBA == PyDict(<< <<KeyB, PyNone>>, <<KeyA, PyStr(<<"p">>)>> >>)

DataInputs ==
    { Absent, PyNone, RowA, PyList(<<>>),
      PyList(<<RowAB>>),
      PyList(<<RowAB, RowA>>),       \* the second record misses key b
      PyList(<<RowA, RowBA>>),       \* the second record has the extra key b
      PyList(<<RowA, PyInt(1)>>) }   \* an element that is no record

FilenameInputs ==
    { Absent, PyNone, PyStr(<<>>),
      PyStr(<<"r", "-", "_", "9", ".", "/", " ", "é", "²">>) }

DelimiterInputs == { Absent, PyStr(<<";", ";">>) }

HeaderInputs == { Absent, PyBool(FALSE) }

Requests ==
    [data : DataInputs, filename : FilenameInputs, delimiter : DelimiterInputs,
     includeHeaders : HeaderInputs]

NoArgs ==
    [data |-> Absent, filename |-> Absent, delimiter |-> Absent,
     includeHeaders |-> Absent]

\* requests of concurrent callers: the same input twice, and file names
\* that sanitize to the same prefix
ConcRequests ==
    { [NoArgs EXCEPT !.data = PyList(<<RowAB>>), !.filename = f,
                     !.delimiter = PyStr(<<";">>)] :
        f \in {PyStr(<<"r", ".">>), PyStr(<<"r", "_">>)} }

-----------------------------------------------------------------------------
(* The server: one handler at a time (Spec), and callers whose handlers    *)
(* interleave at the storage steps (SpecConc).                             *)

NoInput == [kind |-> "none"]

InitCalls(clients) ==
    /\ dirExists \in BOOLEAN
    /\ files = [n \in {} |-> <<>>]
    /\ uuidsIssued = 0
    /\ started = 0
    /\ pc = [c \in clients |-> "idle"]
    /\ args = [c \in clients |-> NoArgs]
    /\ csv_content = [c \in clients |-> <<>>]
    /\ full_filename = [c \in clients |-> <<>>]
    /\ file_size = [c \in clients |-> ""]
    /\ result = [c \in clients |-> NoResult]
    /\ fsBefore = [c \in clients |-> [dir |-> dirExists, files |-> files]]
    /\ named = <<>>
    /\ returned = {}

Init ==
    /\ InitCalls({1})
    /\ input = NoInput
    /\ output = NoInput

Next ==
    \/ \E c \in DOMAIN pc, req \in Requests : CallTool(c, req)
    \/ \E c \in DOMAIN pc : Handle(c)
    \/ \E c \in DOMAIN pc : EnsureDirectory(c)
    \/ \E c \in DOMAIN pc : MkdirFails(c)
    \/ \E c \in DOMAIN pc : WriteFile(c)
    \/ \E c \in DOMAIN pc : WriteFails(c)
    \/ \E c \in DOMAIN pc : Respond(c)

Spec == Init /\ [][Next]_vars

InitConc ==
    /\ InitCalls(1..NumClients)
    /\ input = NoInput
    /\ output = NoInput

NextConc ==
    \/ \E c \in DOMAIN pc, req \in ConcRequests : CallTool(c, req)
    \/ \E c \in DOMAIN pc : Handle(c)
    \/ \E c \in DOMAIN pc : EnsureDirectory(c)
    \/ \E c \in DOMAIN pc : MkdirFails(c)
    \/ \E c \in DOMAIN pc : WriteFile(c)
    \/ \E c \in DOMAIN pc : WriteFails(c)
    \/ \E c \in DOMAIN pc : Respond(c)

SpecConc == InitConc /\ [][NextConc]_vars


-----------------------------------------------------------------------------
(* The pure functions on their own: the server stays idle, Init draws an   *)
(* input and the one action applies the function to it.                    *)

NoCalls ==
    /\ dirExists = FALSE
    /\ files = [n \in {} |-> <<>>]
    /\ uuidsIssued = 0
    /\ started = 0
    /\ pc = [c \in {} |-> "idle"]
    /\ args = [c \in {} |-> NoArgs]
    /\ csv_content = [c \in {} |-> <<>>]
    /\ full_filename = [c \in {} |-> <<>>]
    /\ file_size = [c \in {} |-> ""]
    /\ result = [c \in {} |-> NoResult]
    /\ fsBefore = [c \in {} |-> [dir |-> FALSE, files |-> files]]
    /\ named = <<>>
    /\ returned = {}

(* get_file_size_string on the byte length of its content *)

SizePoints == {0, 2048, 1024 * 1024, 1179648, 2 * 1024 * 1024}

SizeInputs ==
    UNION { {n \in (p - SizeWindow)..(p + SizeWindow) : n >= 0} : p \in SizePoints }

InitSize ==
    /\ NoCalls
    /\ input \in {[kind |-> "bytes", n |-> n] : n \in SizeInputs}
    /\ output = NoInput

GetFileSizeString ==
    /\ input.kind = "bytes"
    /\ output.kind = "none"
    /\ output' = [kind |-> "label", s |-> SizeLabel(input.n)]
    /\ UNCHANGED <<callVars, input>>

NextSize == GetFileSizeString

SpecSize == InitSize /\ [][NextSize]_vars

(* convert_to_csv on records with uniform keys *)

Alphabet == {"x", ",", ";", QUOTECHAR, LF}

\* the texts of k characters
RECURSIVE TextsOfLen(_)
TextsOfLen(k) ==
    IF k = 0 THEN {<<>>}
    ELSE {<<ch>> \o t : ch \in Alphabet, t \in TextsOfLen(k - 1)}

\* the sequences of n texts with at most m characters together
RECURSIVE CellSeqs(_, _)
CellSeqs(n, m) ==
    IF n = 0 THEN {<<>>}
    ELSE UNION { {<<t>> \o rest : t \in TextsOfLen(k),
                                  rest \in CellSeqs(n - 1, m - k)} :
                 k \in 0..m }

Shapes ==
    {sh \in (1..MaxCells) \X (1..MaxCells) : sh[1] * sh[2] <= MaxCells}

\* the name of column j; the first one holds a delimiter
KeyName(j) == IF j = 1 THEN <<"k", ";">> ELSE <<"k", Digit(j)>>

\* a value holding text t; an empty one is None when asNone
CellValue(t, asNone) == IF t = <<>> /\ asNone THEN PyNone ELSE PyStr(t)

\* record i of r records with c columns over the cells; the records after
\* the first list their keys in reverse order when reversed
RecordOf(cells, i, c, asNone, reversed) ==
    PyDict([j \in 1..c |->
        LET col == IF reversed /\ i > 1 THEN c + 1 - j ELSE j
        IN  <<KeyName(col), CellValue(cells[(i - 1) * c + col], asNone)>>])

\* the input of convert_to_csv for one choice of shape, cells and options
EncodeInput(sh, cells, d, h, asNone, reversed) ==
    [kind |-> "records",
     data |-> PyList([i \in 1..sh[1] |->
                        RecordOf(cells, i, sh[2], asNone, reversed)]),
     delimiter |-> PyStr(<<d>>),
     include_headers |-> PyBool(h)]

InitEncode ==
    /\ NoCalls
    /\ \E sh \in Shapes, d \in {",", ";"}, h \in BOOLEAN, asNone \in BOOLEAN :
         \E cells \in CellSeqs(sh[1] * sh[2], MaxChars),
            reversed \in {FALSE} \cup {sh[1] > 1 /\ sh[2] > 1} :
              input = EncodeInput(sh, cells, d, h, asNone, reversed)
    /\ output = NoInput

ConvertToCsv ==
    /\ input.kind = "records"
    /\ output.kind = "none"
    /\ LET out == convert_to_csv(input.data, input.delimiter, input.include_headers)
       IN  output' = IF out.ok THEN [kind |-> "text", s |-> out.value]
                     ELSE [kind |-> "raised", exc |-> out.exc]
    /\ UNCHANGED <<callVars, input>>

NextEncode == ConvertToCsv

SpecEncode == InitEncode /\ [][NextEncode]_vars


-----------------------------------------------------------------------------
(* Properties *)

Calls == DOMAIN pc

IsFailure(r) == DOMAIN r = {"success", "error"} /\ r.success = FALSE
IsSuccess(r) == DOMAIN r = {"path", "filetype", "filename", "filesize"}
FailedWith(c, msg) ==
    pc[c] = "done" /\ IsFailure(result[c]) /\ result[c].error = msg

\* the call holds a generated name: naming is behind it
Named(c) ==
    \/ pc[c] \in {"ensure", "write", "respond"}
    \/ pc[c] = "done" /\ full_filename[c] # <<>>

StorageMessages ==
    {"[Errno 13] Permission denied", "[Errno 28] No space left on device"}

\* the request as the claims read it
DataMissing(a) == a.data.kind \in {"absent", "none"}
DataNotSequence(a) == ~DataMissing(a) /\ a.data.kind # "list"
DataEmpty(a) == a.data.kind = "list" /\ Len(a.data.items) = 0
DataRecords(a) ==
    /\ a.data.kind = "list"
    /\ Len(a.data.items) > 0
    /\ \A i \in 1..Len(a.data.items) : a.data.items[i].kind = "dict"
DelimiterRejected(a) ==
    a.delimiter.kind # "absent"
    /\ ~(a.delimiter.kind = "str" /\ Len(a.delimiter.s) = 1)
FilenameRejected(a) == a.filename.kind \notin {"absent", "str"}
DelimiterOf(a) == IF a.delimiter.kind = "absent" THEN "," ELSE a.delimiter.s[1]
HeadersOf(a) ==
    IF a.includeHeaders.kind = "absent" THEN TRUE ELSE a.includeHeaders.b
ColumnsOf(a) ==
    [j \in 1..Len(a.data.items[1].pairs) |-> a.data.items[1].pairs[j][1]]
ExtraKeys(a) ==
    \E i \in 1..Len(a.data.items) : \E p \in 1..Len(a.data.items[i].pairs) :
        \A j \in 1..Len(ColumnsOf(a)) : a.data.items[i].pairs[p][1] # ColumnsOf(a)[j]

\* the text of a value as the export shows it (null is empty)
Stringified(v) ==
    CASE v.kind = "str" -> v.s
      [] v.kind = "none" -> <<>>
      [] v.kind = "int" -> NatToText(v.n)

\* the text expected in the column named key of a record: the stringified
\* value, or the empty text when the record has no such key
ExpectedField(record, key) ==
    IF \E p \in 1..Len(record.pairs) : record.pairs[p][1] = key
    THEN Stringified(record.pairs[CHOOSE p \in 1..Len(record.pairs) :
                                      record.pairs[p][1] = key][2])
    ELSE <<>>

(* Standard delimited-text parsing: fields separated by the delimiter,      *)
(* records ended by CR LF, LF or CR, a field opened by a quote runs to the  *)
(* closing quote with "" read as one quote.  Each field is returned with    *)
(* its text and whether it was quoted.                                      *)

ParseStart ==
    [rows |-> <<>>, row |-> <<>>, field |-> <<>>, quoted |-> FALSE, mode |-> "record"]

EndField(st) ==
    [st EXCEPT !.row = Append(@, [text |-> st.field, quoted |-> st.quoted]),
               !.field = <<>>, !.quoted = FALSE]

EndRecord(st, ch) ==
    [st EXCEPT !.rows = Append(@, st.row), !.row = <<>>,
               !.mode = IF ch = CR THEN "cr" ELSE "record"]

RECURSIVE ParseChar(_, _, _)
ParseChar(st, ch, delim) ==
    CASE st.mode = "cr" ->
            IF ch = LF THEN [st EXCEPT !.mode = "record"]
            ELSE ParseChar([st EXCEPT !.mode = "record"], ch, delim)
      [] st.mode = "record" ->
            IF ch \in {CR, LF} THEN EndRecord(st, ch)
            ELSE ParseChar([st EXCEPT !.mode = "field"], ch, delim)
      [] st.mode = "field" ->
            IF ch = QUOTECHAR THEN [st EXCEPT !.mode = "quoted", !.quoted = TRUE]
            ELSE IF ch = delim THEN EndField(st)
            ELSE IF ch \in {CR, LF} THEN EndRecord(EndField(st), ch)
            ELSE [st EXCEPT !.field = <<ch>>, !.mode = "unquoted"]
      [] st.mode = "unquoted" ->
            IF ch = delim THEN [EndField(st) EXCEPT !.mode = "field"]
            ELSE IF ch \in {CR, LF} THEN EndRecord(EndField(st), ch)
            ELSE [st EXCEPT !.field = Append(@, ch)]
      [] st.mode = "quoted" ->
            IF ch = QUOTECHAR THEN [st EXCEPT !.mode = "quote"]
            ELSE [st EXCEPT !.field = Append(@, ch)]
      [] st.mode = "quote" ->
            IF ch = QUOTECHAR
            THEN [st EXCEPT !.field = Append(@, ch), !.mode = "quoted"]
            ELSE IF ch = delim THEN [EndField(st) EXCEPT !.mode = "field"]
            ELSE IF ch \in {CR, LF} THEN EndRecord(EndField(st), ch)
            ELSE [st EXCEPT !.field = Append(@, ch), !.mode = "unquoted"]

RECURSIVE ParseFrom(_, _, _, _)
ParseFrom(st, text, i, delim) ==
    IF i > Len(text)
    THEN IF st.mode \in {"record", "cr"} THEN st.rows
         ELSE EndRecord(EndField(st), LF).rows
    ELSE ParseFrom(ParseChar(st, text[i], delim), text, i + 1, delim)

ParseCsv(text, delim) == ParseFrom(ParseStart, text, 1, delim)

\* rows of parsed text against the records: the header row when asked for,
\* then one row per record, each with the first record's columns in order
RowsMatch(parsed, items, columns, headers) ==
    LET off == IF headers THEN 1 ELSE 0
    IN  /\ Len(parsed) = Len(items) + off
        /\ headers =>
             /\ Len(parsed[1]) = Len(columns)
             /\ \A j \in 1..Len(columns) : parsed[1][j].text = columns[j]
        /\ \A i \in 1..Len(items) :
             /\ Len(parsed[i + off]) = Len(columns)
             /\ \A j \in 1..Len(columns) :
                  parsed[i + off][j].text = ExpectedField(items[i], columns[j])


-----------------------------------------------------------------------------
(* C7 *)

\* hundredths h written with two decimal places
Hundredths(h) ==
    ToString(h \div 100) \o "." \o (IF h % 100 < 10 THEN "0" ELSE "")
    \o ToString(h % 100)

\* q is num/den rounded to an integer: no integer is nearer
Rounds(q, num, den) == 2 * (q * den - num) <= den /\ 2 * (num - q * den) <= den

\* C7: the size string of n bytes is "1 KB" below 1024 bytes (never "0 KB"),
\* n/1024 rounded to 0 decimal places and " KB" from 1024 bytes up to
\* 1048576, n/1048576 rounded to 2 decimal places and " MB" from there on;
\* 500 bytes give "1 KB", 2048 bytes "2 KB", 2097152 bytes "2.00 MB".
C7_SizeString ==
    output.kind = "label" =>
        LET n == input.n
            kb == n \div 1024
            hm == (n * 100) \div 1048576
        IN  /\ output.s # "0 KB"
            /\ n < 1024 => output.s = "1 KB"
            /\ (1024 <= n /\ n < 1048576) =>
                 \E q \in {kb, kb + 1} :
                    Rounds(q, n, 1024) /\ output.s = ToString(q) \o " KB"
            /\ n >= 1048576 =>
                 \E h \in {hm, hm + 1} :
                    Rounds(h, n * 100, 1048576) /\ output.s = Hundredths(h) \o " MB"
            /\ n = 500 => output.s = "1 KB"
            /\ n = 2048 => output.s = "2 KB"
            /\ n = 2097152 => output.s = "2.00 MB"

\* the label of 2097152 bytes was computed, and that of a size whose
\* quotient rounds up
C7_Witness ==
    \/ output.kind = "label" /\ input.n = 2097152 /\ output.s = "2.00 MB"
    \/ output.kind = "label" /\ input.n = 1537 /\ output.s = "2 KB"

-----------------------------------------------------------------------------
(* C8 *)

\* the characters that make the writer quote a field
Special(text, delim) ==
    \E i \in 1..Len(text) : text[i] \in {delim, QUOTECHAR, LF, CR}

\* the text of the output parsed with the delimiter of the input
EncodedRows == ParseCsv(output.s, input.delimiter.s[1])

\* rows hold every record's stringified values, in the first record's
\* column order, under the header row when there is one
RoundTrip(rows) ==
    RowsMatch(rows, input.data.items,
              [j \in 1..Len(input.data.items[1].pairs) |->
                  input.data.items[1].pairs[j][1]],
              input.include_headers.b)

-----------------------------------------------------------------------------
(* C1 *)

\* C1: a call whose data is absent, null or not a sequence fails with
\* "Data must be provided as an array of objects", and a call whose data is
\* the empty sequence fails with "Data array cannot be empty".
C1_ValidationMessages ==
    \A c \in Calls : pc[c] = "done" =>
        /\ (DataMissing(args[c]) \/ DataNotSequence(args[c])) =>
             FailedWith(c, "Data must be provided as an array of objects")
        /\ DataEmpty(args[c]) => FailedWith(c, "Data array cannot be empty")

-----------------------------------------------------------------------------
(* C2 *)

\* the messages of the causes of failure a request carries, in no order;
\* a request that carries none can fail in storage only
CausesOf(a) ==
    (IF DataMissing(a) \/ DataNotSequence(a) \/ DataEmpty(a)
     THEN {"Data must be provided as an array of objects",
           "Data array cannot be empty"} ELSE {})
    \cup (IF a.data.kind = "list"
             /\ \E i \in 1..Len(a.data.items) : a.data.items[i].kind # "dict"
          THEN {"'int' object has no attribute 'keys'"} ELSE {})
    \cup (IF DelimiterRejected(a)
          THEN {"\"delimiter\" must be a 1-character string"} ELSE {})
    \cup (IF DataRecords(a) /\ ExtraKeys(a)
          THEN {"dict contains fields not in fieldnames"} ELSE {})
    \cup (IF FilenameRejected(a)
          THEN {"'NoneType' object is not iterable"} ELSE {})

\* C2: no exception leaves the handler, and every call ends with a
\* well-formed result: {success: false, error: the message of the cause},
\* or path, filetype, filename and filesize with no success field.  The
\* cause is one the request carries (its data, its records, its delimiter,
\* its file name); a request that carries none fails in storage, if at all.
C2_WellFormedResult ==
    \A c \in Calls :
        /\ pc[c] # "raised"
        /\ pc[c] = "done" =>
             /\ IsFailure(result[c]) \/ IsSuccess(result[c])
             /\ IsFailure(result[c]) =>
                  result[c].error \in
                     (IF CausesOf(args[c]) = {} THEN StorageMessages
                      ELSE CausesOf(args[c]))
             /\ IsSuccess(result[c]) => CausesOf(args[c]) = {}

\* a call ended with the failure object of a type error of the encoder,
\* after an earlier call ended with a success object
C2_Witness ==
    \E c \in Calls :
        /\ FailedWith(c, "\"delimiter\" must be a 1-character string")
        /\ returned # {}

-----------------------------------------------------------------------------
(* C3 *)

\* C3: over any interleaving of calls every generated name differs from
\* every other, every file named in a success result holds the whole text
\* of its call, and no two success results name the same file.
C3_UniqueFiles ==
    /\ \A i, j \in 1..Len(named) : i # j => named[i] # named[j]
    /\ \A r \in returned : r.path \in DOMAIN files /\ files[r.path] = r.content
    /\ \A c1, c2 \in Calls :
         (c1 # c2 /\ pc[c1] = "done" /\ pc[c2] = "done"
          /\ IsSuccess(result[c1]) /\ IsSuccess(result[c2])) =>
             result[c1].path # result[c2].path

\* two calls with the same arguments both returned success, leaving two files
C3_Witness ==
    \E c1, c2 \in Calls :
        /\ c1 # c2
        /\ pc[c1] = "done" /\ pc[c2] = "done"
        /\ args[c1] = args[c2]
        /\ IsSuccess(result[c1]) /\ IsSuccess(result[c2])
        /\ files[result[c1].path] = files[result[c2].path]
        /\ Cardinality(DOMAIN files) = 2

-----------------------------------------------------------------------------
(* C4 *)

\* C4: on records (first record's keys are the columns) the encoder never
\* fails, so such a call fails only in naming or storage, and its text has,
\* for every record, exactly the first record's columns: a key the record
\* lacks is an empty field, a key beyond the columns is dropped.
C4_FirstRecordSchema ==
    \A c \in Calls :
        (DataRecords(args[c]) /\ ~DelimiterRejected(args[c])) =>
            /\ (pc[c] = "done" /\ IsFailure(result[c])) =>
                 \/ result[c].error \in StorageMessages
                 \/ FilenameRejected(args[c])
            /\ Named(c) =>
                 RowsMatch(ParseCsv(csv_content[c], DelimiterOf(args[c])),
                           args[c].data.items, ColumnsOf(args[c]),
                           HeadersOf(args[c]))

-----------------------------------------------------------------------------
(* C5 *)

\* the characters of [A-Za-z0-9_-] among those of the model
SafeChars == AsciiAlnum \cup {"_", "-"}

\* the file name the request gives, "output" when it gives none
FilenameOf(a) == IF a.filename.kind = "absent" THEN OUTPUT ELSE a.filename.s

\* C5: the generated name starts with as many characters as the file name
\* has, each in [A-Za-z0-9_-]: the file name's character when that is in
\* the set, "_" otherwise; "_", the uuid and ".csv" follow.
C5_SanitizedAscii ==
    \A c \in Calls : Named(c) =>
        LET f == FilenameOf(args[c])
        IN  /\ Len(full_filename[c]) = Len(f) + 6
            /\ \A i \in 1..Len(f) :
                 /\ full_filename[c][i] \in SafeChars
                 /\ full_filename[c][i] = IF f[i] \in SafeChars THEN f[i] ELSE "_"
            /\ full_filename[c][Len(f) + 1] = "_"

-----------------------------------------------------------------------------
(* C6 *)

\* C6: when the file name is absent or empty the generated name is
\* output_<uuid>.csv.
C6_DefaultName ==
    \A c \in Calls :
        (Named(c) /\ (args[c].filename.kind = "absent"
                      \/ (args[c].filename.kind = "str" /\ args[c].filename.s = <<>>))) =>
            /\ Len(full_filename[c]) = Len(OUTPUT) + 6
            /\ SubSeq(full_filename[c], 1, Len(OUTPUT) + 1) = OUTPUT \o <<"_">>
            /\ SubSeq(full_filename[c], Len(OUTPUT) + 3, Len(OUTPUT) + 6)
                 = <<".", "c", "s", "v">>

-----------------------------------------------------------------------------
(* C9 *)

\* C9: when a call returns success the export directory exists and holds
\* a file named result.path with the whole text of the call; path and
\* filename are the generated name, which has no path separator, filetype
\* is "text/csv", and every file that was there when the call arrived is
\* unchanged, the new file being the only one added.
C9_SuccessAfterStorage ==
    \A c \in Calls : (pc[c] = "done" /\ IsSuccess(result[c])) =>
        /\ dirExists
        /\ result[c].path = full_filename[c]
        /\ result[c].filename = full_filename[c]
        /\ result[c].filetype = "text/csv"
        /\ \A i \in 1..Len(result[c].path) : result[c].path[i] # "/"
        /\ result[c].path \in DOMAIN files
        /\ files[result[c].path] = csv_content[c]
        /\ csv_content[c] # <<>>
        /\ result[c].path \notin DOMAIN fsBefore[c].files
        /\ DOMAIN files = DOMAIN fsBefore[c].files \cup {result[c].path}
        /\ \A n \in DOMAIN fsBefore[c].files : files[n] = fsBefore[c].files[n]

\* a call returned success in a directory that already held a file
C9_Witness ==
    \E c \in Calls :
        /\ pc[c] = "done" /\ IsSuccess(result[c])
        /\ fsBefore[c].files # <<>>
        /\ DOMAIN fsBefore[c].files # {}

-----------------------------------------------------------------------------
(* C10 *)

\* the request fails in validation, encoding or naming
RejectedBeforeStorage(a) ==
    \/ ~DataRecords(a)
    \/ DelimiterRejected(a)
    \/ ExtraKeys(a)
    \/ FilenameRejected(a)

\* C10: a call that fails in validation, encoding or naming returns the
\* failure result and leaves the directory as it was when the call arrived:
\* not created, no file added or changed.
C10_FailureLeavesStorage ==
    \A c \in Calls : (pc[c] = "done" /\ RejectedBeforeStorage(args[c])) =>
        /\ IsFailure(result[c])
        /\ dirExists = fsBefore[c].dir
        /\ files = fsBefore[c].files

\* a call whose delimiter the encoder rejects ended while the directory
\* did not exist; another whose file name cannot be sanitized ended with
\* a file of an earlier call in the directory
C10_Witness ==
    \E c \in Calls :
        /\ pc[c] = "done"
        /\ DataRecords(args[c])
        /\ \/ DelimiterRejected(args[c]) /\ ~dirExists
           \/ FilenameRejected(args[c]) /\ ~DelimiterRejected(args[c])
              /\ DOMAIN files # {}

====
